---- MODULE Spec2Model ----
(***************************************************************************)
(* Model of hcp_prep/pipe.py: the HCPrepWorkflow composer (configuration   *)
(* binding, self-inflating nodes, graph wiring) and the command-line entry *)
(* point main().                                                           *)
(*                                                                         *)
(* Python values are tagged records so that None, strings, lists, tuples   *)
(* and dicts stay distinct and Python truthiness can be computed.          *)
(***************************************************************************)
EXTENDS Integers, Sequences, FiniteSets, TLC

VARIABLES
    hc_config,   \* self._hc_config
    nodes,       \* the self-inflated nodes: attribute name -> node state
    graph,       \* self._graph of the pe.Workflow: [nodes, edges]
    raised,      \* exception the last operation raised in the composer ("none" if none)
    history,     \* the operations performed on the composer, oldest first
    engine,      \* what the last run()/write_graph() handed to the engine
    main_ret     \* what main() did and returned ("not_run" before/without main)

vars == <<hc_config, nodes, graph, raised, history, engine, main_ret>>

\* ---------------------------------------------------------------- bounds

\* Operations performed on one composer in one behaviour.
MaxOps == 3
\* Longest sequence the classification stage produces for a fan-out slot.
MaxRuns == 2

\* ---------------------------------------------------------------- Python values

None == [t |-> "None"]
Str(s) == [t |-> "str", v |-> s]
Bool(b) == [t |-> "bool", v |-> b]
PyInt(i) == [t |-> "int", v |-> i]
List(s) == [t |-> "list", v |-> s]
Tuple(s) == [t |-> "tuple", v |-> s]
Dict(d) == [t |-> "dict", v |-> d]
EmptyDict == Dict(<<>>)

\* Python truth value of x, as tested by `if x:`.
Truthy(x) ==
    CASE x.t = "None" -> FALSE
      [] x.t = "str" -> x.v # ""
      [] x.t = "bool" -> x.v
      [] x.t = "int" -> x.v # 0
      [] x.t = "list" -> Len(x.v) > 0
      [] x.t = "tuple" -> Len(x.v) > 0
      [] x.t = "dict" -> DOMAIN x.v # {}
      [] OTHER -> TRUE

\* d.get(key, default) on a dict value d.
DictGet(d, key, default) == IF key \in DOMAIN d.v THEN d.v[key] ELSE default

\* ---------------------------------------------------------------- nodes

NodeNames ==
    {"subjects_node", "dicom_grabber", "dicom_gather", "dicom_convert",
     "dicom_select", "dicom_info", "nii_wrangler", "hc_pre_fs", "hc_fs",
     "hc_post_fs", "hc_volume", "hc_surface", "data_sink"}

\* The five nodes that run the HCP scripts, in pipeline order.
HCNodes == <<"hc_pre_fs", "hc_fs", "hc_post_fs", "hc_volume", "hc_surface">>

\* An iterfield of the volume node that forgets unwarp_dir.
IterField_short(n) ==
    CASE n = "hc_volume" ->
            {"bold_name", "bold_img", "bold_scout", "se_fieldmap_pos",
             "se_fieldmap_neg", "fieldmap_echo_spacing"}
      [] n = "hc_surface" -> {"bold_name", "subject"}
      [] OTHER -> {}

\* iterfield given to pe.MapNode; empty for a plain pe.Node.
IterField(n) ==
    CASE n = "hc_volume" ->
            {"bold_name", "bold_img", "bold_scout", "se_fieldmap_pos",
             "se_fieldmap_neg", "unwarp_dir", "fieldmap_echo_spacing"}
      [] n = "hc_surface" -> {"bold_name", "subject"}
      [] OTHER -> {}

\* The inputs a node's property sets right after creating the node.
DefaultInputs(n) ==
    CASE n = "dicom_grabber" ->
            [template |-> Str("*"),
             template_args |-> Dict([dicom |-> List(<<List(<<Str("subject")>>)>>)]),
             sort_filelist |-> Bool(TRUE)]
      [] n = "dicom_convert" ->
            [convert_all_pars |-> Bool(TRUE),
             gzip_output |-> Bool(FALSE),
             reorient |-> Bool(FALSE),
             reorient_and_crop |-> Bool(FALSE),
             args |-> Str("-d n -p n")]
      [] n = "dicom_select" -> [index |-> PyInt(0)]
      [] OTHER -> <<>>

\* pe.Node(...) / pe.MapNode(...): a new object. instance tells the objects
\* created under one name apart: the first is 1.
NewNode(n) ==
    [inputs |-> DefaultInputs(n), iterables |-> None, iterfield |-> IterField(n),
     instance |-> 1]

\* Node properties without the getattr guard: every read makes a new object.
InflateSet_recreating(ns, S) ==
    [n \in DOMAIN ns \cup S |->
        IF n \notin S THEN ns[n]
        ELSE IF n \in DOMAIN ns
             THEN [NewNode(n) EXCEPT !.instance = ns[n].instance + 1]
             ELSE NewNode(n)]

\* Self-inflating property reads of the nodes S: each is created on first
\* access and the stored one is returned afterwards.
InflateSet(ns, S) ==
    [n \in DOMAIN ns \cup S |-> IF n \in DOMAIN ns THEN ns[n] ELSE NewNode(n)]

Inflate(ns, n) == InflateSet(ns, {n})

\* self.<n>.inputs.<name> = val
SetInput(ns, n, name, val) ==
    LET m == Inflate(ns, n)
    IN  [m EXCEPT ![n].inputs = (name :> val) @@ @]

\* self.<n>.iterables = val
SetIterables(ns, n, val) ==
    LET m == Inflate(ns, n)
    IN  [m EXCEPT ![n].iterables = val]

\* ---------------------------------------------------------------- the graph

\* The connection list of connect_nodes, section by section, in the order
\* written: <<source node, destination node, source output, destination input>>.
\* The prep steps with the grabber's output named "files".
PrepConnections_files ==
    << <<"subjects_node", "dicom_grabber", "subject", "subject">>,
       <<"dicom_grabber", "dicom_gather", "files", "files">>,
       <<"dicom_gather", "dicom_select", "links", "inlist">>,
       <<"dicom_select", "dicom_convert", "out", "source_names">>,
       <<"dicom_gather", "dicom_info", "links", "files">>,
       <<"dicom_convert", "nii_wrangler", "converted_files", "nii_files">>,
       <<"dicom_info", "nii_wrangler", "info", "dicom_info">> >>

PrepConnections ==
    << <<"subjects_node", "dicom_grabber", "subject", "subject">>,
       <<"dicom_grabber", "dicom_gather", "dicom", "files">>,
       <<"dicom_gather", "dicom_select", "links", "inlist">>,
       <<"dicom_select", "dicom_convert", "out", "source_names">>,
       <<"dicom_gather", "dicom_info", "links", "files">>,
       <<"dicom_convert", "nii_wrangler", "converted_files", "nii_files">>,
       <<"dicom_info", "nii_wrangler", "info", "dicom_info">> >>

\* The pre freesurfer section with every input named after its source.
PreFsConnections_same_names ==
    << <<"subjects_node", "hc_pre_fs", "subject", "subject">>,
       <<"nii_wrangler", "hc_pre_fs", "t1_structs", "t1_structs">>,
       <<"nii_wrangler", "hc_pre_fs", "t2_structs", "t2_structs">>,
       <<"nii_wrangler", "hc_pre_fs", "mag_fieldmap", "mag_fieldmap">>,
       <<"nii_wrangler", "hc_pre_fs", "phase_fieldmap", "phase_fieldmap">>,
       <<"nii_wrangler", "hc_pre_fs", "fieldmap_te", "fieldmap_te">>,
       <<"nii_wrangler", "hc_pre_fs", "t1_sample_spacing", "t1_sample_spacing">>,
       <<"nii_wrangler", "hc_pre_fs", "t2_sample_spacing", "t2_sample_spacing">> >>

PreFsConnections ==
    << <<"subjects_node", "hc_pre_fs", "subject", "subject">>,
       <<"nii_wrangler", "hc_pre_fs", "t1_structs", "t1_files">>,
       <<"nii_wrangler", "hc_pre_fs", "t2_structs", "t2_files">>,
       <<"nii_wrangler", "hc_pre_fs", "mag_fieldmap", "fieldmap_magnitude">>,
       <<"nii_wrangler", "hc_pre_fs", "phase_fieldmap", "fieldmap_phase">>,
       <<"nii_wrangler", "hc_pre_fs", "fieldmap_te", "fieldmap_te">>,
       <<"nii_wrangler", "hc_pre_fs", "t1_sample_spacing", "t1_sample_spacing">>,
       <<"nii_wrangler", "hc_pre_fs", "t2_sample_spacing", "t2_sample_spacing">> >>

FsConnections ==
    << <<"hc_pre_fs", "hc_fs", "subject", "subject">>,
       <<"hc_pre_fs", "hc_fs", "subject_t1_dir", "subject_t1_dir">>,
       <<"hc_pre_fs", "hc_fs", "t1_acpc_dc_restore", "t1_acpc_dc_restore">>,
       <<"hc_pre_fs", "hc_fs", "t1_acpc_dc_restore_brain", "t1_acpc_dc_restore_brain">>,
       <<"hc_pre_fs", "hc_fs", "t2_acpc_dc_restore", "t2_acpc_dc_restore">> >>

PostFsConnections ==
    << <<"hc_fs", "hc_post_fs", "subject", "subject">>,
       <<"hc_pre_fs", "hc_post_fs", "study_dir", "study_dir">> >>

VolumeConnections ==
    << <<"hc_post_fs", "hc_volume", "subject", "subject">>,
       <<"hc_pre_fs", "hc_volume", "study_dir", "study_dir">>,
       <<"nii_wrangler", "hc_volume", "bold_names", "bold_name">>,
       <<"nii_wrangler", "hc_volume", "bolds", "bold_img">>,
       <<"nii_wrangler", "hc_volume", "sb_refs", "bold_scout">>,
       <<"nii_wrangler", "hc_volume", "neg_fieldmaps", "se_fieldmap_neg">>,
       <<"nii_wrangler", "hc_volume", "pos_fieldmaps", "se_fieldmap_pos">>,
       <<"nii_wrangler", "hc_volume", "ep_echo_spacings", "fieldmap_echo_spacing">>,
       <<"nii_wrangler", "hc_volume", "ep_unwarp_dirs", "unwarp_dir">>,
       <<"hc_post_fs", "hc_volume", "grayordinates_res", "fmri_res">> >>

SurfaceConnections ==
    << <<"hc_volume", "hc_surface", "subject", "subject">>,
       <<"hc_volume", "hc_surface", "bold_name", "bold_name">>,
       <<"hc_pre_fs", "hc_surface", "study_dir", "study_dir">>,
       <<"hc_post_fs", "hc_surface", "low_res_mesh", "low_res_mesh">>,
       <<"hc_post_fs", "hc_surface", "grayordinates_res", "fmri_res">>,
       <<"hc_post_fs", "hc_surface", "grayordinates_res", "grayordinates_res">> >>

SinkConnections ==
    << <<"hc_surface", "data_sink", "study_dir", "preprocessed">> >>

ConnectionList ==
    PrepConnections \o PreFsConnections \o FsConnections \o PostFsConnections
    \o VolumeConnections \o SurfaceConnections \o SinkConnections

\* An edge of the graph: [src, out, dst, in].
Edge(c) == [src |-> c[1], out |-> c[3], dst |-> c[2], in |-> c[4]]

\* nodes: the names of the nodes in the graph; edges: the connections;
\* refs: for each node in the graph, the object (instance) the graph holds.
EmptyGraph == [nodes |-> {}, edges |-> {}, refs |-> <<>>]

\* self._get_all_nodes(): the nodes the workflow graph holds.
GetAllNodes(g) == g.nodes

\* self.remove_nodes(S): the nodes leave the graph with every edge at them.
RemoveNodes(g, S) ==
    [nodes |-> g.nodes \ S,
     edges |-> {e \in g.edges : e.src \notin S /\ e.dst \notin S},
     refs |-> [n \in DOMAIN g.refs \ S |-> g.refs[n]]]

\* self.connect(list): the engine refuses a destination input that an edge
\* of the graph already feeds (it raises and adds nothing); otherwise every
\* listed edge and its two nodes are added.
Connect(g, list) ==
    LET new == {Edge(list[i]) : i \in DOMAIN list}
        fed == {<<e.dst, e.in>> : e \in g.edges}
    IN  IF \E e \in new : <<e.dst, e.in>> \in fed
        THEN [graph |-> g, raised |-> "Exception"]
        ELSE [graph |-> [nodes |-> g.nodes \cup {e.src : e \in new} \cup {e.dst : e \in new},
                         edges |-> g.edges \cup new,
                         refs |-> g.refs],
              raised |-> "none"]

\* ---------------------------------------------------------------- wiring

\* clear_nodes with the test on all_nodes inverted: nothing is removed.
clear_nodes_skipped(w) == w

\* clear_nodes that spares the first two nodes of the pipeline.
clear_nodes_partial(w) ==
    [w EXCEPT !.graph =
        RemoveNodes(w.graph, GetAllNodes(w.graph) \ {"subjects_node", "dicom_grabber"})]

\* self.clear_nodes()
clear_nodes(w) ==
    [w EXCEPT !.graph = RemoveNodes(w.graph, GetAllNodes(w.graph))]

\* Reading the node properties while the connection list is built.
InflateAll(ns) ==
    InflateSet(ns, {ConnectionList[i][1] : i \in DOMAIN ConnectionList}
                   \cup {ConnectionList[i][2] : i \in DOMAIN ConnectionList})

\* The graph g holding, for each node it newly has, the object that the
\* property read returned when the connection list was built.
Referencing(g, ns) ==
    [g EXCEPT !.refs = [n \in g.nodes |->
                           IF n \in DOMAIN g.refs THEN g.refs[n] ELSE ns[n].instance]]

\* The self.connect([...]) statement of connect_nodes on the composer w1
\* that clear_nodes left, r being what the engine's connect answers.
Wired(w1, r) ==
    [w1 EXCEPT !.nodes = InflateAll(w1.nodes),
               !.graph = Referencing(r.graph, InflateAll(w1.nodes)),
               !.raised = r.raised]

Wire(w1) == Wired(w1, Connect(w1.graph, ConnectionList))

\* self.connect_nodes()
connect_nodes(w) == Wire(clear_nodes(w))

\* ---------------------------------------------------------------- collaborators

\* The names n.inputs has as settable traits: the inputs the connection list
\* feeds, the inputs pipe.py assigns, and the template / config-file
\* parameters of the HCP interfaces (the comment on the templates loop: "names
\* are also input names on some nodes").
InputNames(n) ==
    {ConnectionList[i][4] : i \in {j \in DOMAIN ConnectionList : ConnectionList[j][2] = n}}
    \cup DOMAIN DefaultInputs(n)
    \cup (CASE n = "dicom_grabber" -> {"base_directory", "field_template"}
            [] n = "data_sink" -> {"base_directory"}
            [] n = "nii_wrangler" -> {"series_map", "ep_unwarp_dir"}
            [] n = "hc_pre_fs" ->
                 {"full_command", "environ", "templates_dir", "t1_template", "fnirt_config"}
            [] n = "hc_volume" ->
                 {"full_command", "environ", "templates_dir", "fnirt_config"}
            [] n \in {"hc_fs", "hc_post_fs", "hc_surface"} ->
                 {"full_command", "environ", "templates_dir"}
            [] OTHER -> {})

\* apply_dict_to_obj(the_dict, inputs, skip_names) on the inputs of node n:
\* every name of the mapping that the inputs have and that is not skipped is
\* set; unknown names are ignored.
apply_dict_to_obj(d, inputs, n, skip_names) ==
    LET names == (DOMAIN d.v \cap InputNames(n)) \ skip_names
    IN  [k \in DOMAIN inputs \cup names |-> IF k \in names THEN d.v[k] ELSE inputs[k]]

\* The script each HCP node runs, in the order of HCNodes.
HCScripts ==
    <<"pre_freesurfer", "freesurfer", "post_freesurfer", "volume", "surface">>

\* get_hcp_commands_for_config(config): one command template per HCP node,
\* in pipeline order, a function of the configuration alone.
get_hcp_commands_for_config(cfg) ==
    [i \in 1..5 |-> [t |-> "command", script |-> HCScripts[i], config |-> cfg]]

\* get_hcp_env_for_config(config): the environment mapping, a function of
\* the configuration alone.
get_hcp_env_for_config(cfg) == [t |-> "environ", config |-> cfg]

\* ---------------------------------------------------------------- configuration

\* self.get_conf(section, option)
get_conf(cfg, section, option) ==
    IF ~Truthy(cfg) THEN None
    ELSE DictGet(DictGet(cfg, section, EmptyDict), option, None)

HCSet == {HCNodes[i] : i \in DOMAIN HCNodes}

\* The templates / config_files loop over the five HCP nodes: on each, the
\* templates (but templates_dir), then the config files.
ApplyShared(temps, c_files, ns) ==
    LET m == InflateSet(ns, HCSet)
    IN  [n \in DOMAIN m |->
            IF n \in HCSet
            THEN [m[n] EXCEPT !.inputs =
                     apply_dict_to_obj(c_files,
                         apply_dict_to_obj(temps, @, n, {"templates_dir"}), n, {})]
            ELSE m[n]]

\* The tuple assignment with its targets in reverse order: the i-th command
\* goes to the (6 - i)-th node.
SetCommands_reversed(cmds, ns) ==
    [n \in DOMAIN ns |->
        IF n \in HCSet
        THEN [ns[n] EXCEPT !.inputs =
                 ("full_command" :> cmds[6 - (CHOOSE i \in DOMAIN HCNodes : HCNodes[i] = n)]) @@ @]
        ELSE ns[n]]

\* The tuple assignment of the five full_command inputs: the i-th command
\* goes to the i-th node.
SetCommands(cmds, ns) ==
    [n \in DOMAIN ns |->
        IF n \in HCSet
        THEN [ns[n] EXCEPT !.inputs =
                 ("full_command" :> cmds[CHOOSE i \in DOMAIN HCNodes : HCNodes[i] = n]) @@ @]
        ELSE ns[n]]

\* The environ assignments without the one of the surface node, whose
\* environ stays the empty mapping of a new command-line interface.
SetEnviron_four(envs, ns) ==
    [n \in DOMAIN ns |->
        IF n \in HCSet
        THEN [ns[n] EXCEPT !.inputs =
                 ("environ" :> (IF n = "hc_surface" THEN EmptyDict ELSE envs)) @@ @]
        ELSE ns[n]]

\* The five environ assignments.
SetEnviron(envs, ns) ==
    [n \in DOMAIN ns |->
        IF n \in HCSet
        THEN [ns[n] EXCEPT !.inputs = ("environ" :> envs) @@ @]
        ELSE ns[n]]

\* The per-step sections and the node each is applied to.
StepSections ==
    << <<"nifti_wrangler", "nii_wrangler">>,
       <<"pre_freesurfer", "hc_pre_fs">>,
       <<"freesurfer", "hc_fs">>,
       <<"post_freesurfer", "hc_post_fs">>,
       <<"volume_processing", "hc_volume">>,
       <<"surface_processing", "hc_surface">> >>

\* The six apply_dict_to_obj calls for the per-step sections.
ApplySteps(cfg, ns) ==
    LET m == InflateSet(ns, {StepSections[i][2] : i \in DOMAIN StepSections})
        section(n) == StepSections[CHOOSE i \in DOMAIN StepSections : StepSections[i][2] = n][1]
    IN  [n \in DOMAIN m |->
            IF \E i \in DOMAIN StepSections : StepSections[i][2] = n
            THEN [m[n] EXCEPT !.inputs =
                     apply_dict_to_obj(DictGet(cfg, section(n), EmptyDict), @, n, {})]
            ELSE m[n]]

\* The four stores below take the value read from the configuration and
\* store it only if it is truthy (`if subs:` and its likes).
StoreIterables(ns, n, val) ==
    IF Truthy(val) THEN SetIterables(ns, n, Tuple(<<Str("subject"), val>>)) ELSE ns

\* The store without its `if`: an absent value is stored as well.
StoreInput_unconditional(ns, n, name, test, val) == SetInput(ns, n, name, val)

StoreInput(ns, n, name, test, val) ==
    IF Truthy(test) THEN SetInput(ns, n, name, val) ELSE ns

\* subjects node
BindSubjects(cfg, ns) ==
    StoreIterables(ns, "subjects_node", get_conf(cfg, "general", "subjects"))

\* dcm grabber, the template stored as it is read and not as {"dicom": ...}.
BindGrabber_bare_template(cfg, ns) ==
    StoreInput(
        StoreInput(ns, "dicom_grabber", "base_directory",
                   get_conf(cfg, "general", "subject_dir"),
                   get_conf(cfg, "general", "subject_dir")),
        "dicom_grabber", "field_template",
        get_conf(cfg, "general", "dicom_template"),
        get_conf(cfg, "general", "dicom_template"))

\* dcm grabber
BindGrabber(cfg, ns) ==
    StoreInput(
        StoreInput(ns, "dicom_grabber", "base_directory",
                   get_conf(cfg, "general", "subject_dir"),
                   get_conf(cfg, "general", "subject_dir")),
        "dicom_grabber", "field_template",
        get_conf(cfg, "general", "dicom_template"),
        Dict([dicom |-> get_conf(cfg, "general", "dicom_template")]))

\* nifti wrangler
BindSeries(cfg, ns) ==
    StoreInput(ns, "nii_wrangler", "series_map",
               DictGet(cfg, "series", EmptyDict), DictGet(cfg, "series", EmptyDict))

\* set template and config values
BindShared(cfg, ns) ==
    ApplyShared(DictGet(cfg, "templates", EmptyDict),
                DictGet(cfg, "config_files", EmptyDict), ns)

\* set the commands for each of the freesurfer steps
BindCommands(cfg, ns) == SetCommands(get_hcp_commands_for_config(cfg), ns)

\* set the environ on each of the hc nodes
BindEnviron(cfg, ns) == SetEnviron(get_hcp_env_for_config(cfg), ns)

\* update_nodes_from_config with the per-step sections applied before the
\* templates, the commands and the environ.
update_nodes_from_config_steps_first(cfg, ns) ==
    BindEnviron(cfg,
        BindCommands(cfg,
            BindShared(cfg,
                ApplySteps(cfg,
                    BindSeries(cfg,
                        BindGrabber(cfg,
                            BindSubjects(cfg, ns)))))))

\* self.update_nodes_from_config(), with self.hc_config = cfg (truthy).
update_nodes_from_config(cfg, ns) ==
    ApplySteps(cfg,
        BindEnviron(cfg,
            BindCommands(cfg,
                BindShared(cfg,
                    BindSeries(cfg,
                        BindGrabber(cfg,
                            BindSubjects(cfg, ns)))))))

\* The composer object: the fields the operations read and write.
Composer == [hc_config |-> hc_config, nodes |-> nodes, graph |-> graph, raised |-> "none"]

\* A setter that ends update_nodes_from_config with connect_nodes.
hc_config_setter_rewiring(w, value) ==
    IF Truthy(value)
    THEN connect_nodes([w EXCEPT !.hc_config = value,
                                 !.nodes = update_nodes_from_config(value, w.nodes)])
    ELSE [w EXCEPT !.hc_config = value]

\* A setter that tests `is not None` in place of truth: an empty mapping
\* is bound like any other configuration.
hc_config_setter_not_none(w, value) ==
    IF value # None
    THEN [w EXCEPT !.hc_config = value,
                   !.nodes = update_nodes_from_config(value, w.nodes)]
    ELSE [w EXCEPT !.hc_config = value]

\* hc_config setter: self.hc_config = value
hc_config_setter(w, value) ==
    IF Truthy(value)
    THEN [w EXCEPT !.hc_config = value,
                   !.nodes = update_nodes_from_config(value, w.nodes)]
    ELSE [w EXCEPT !.hc_config = value]

\* ---------------------------------------------------------------- the engine

NoHandoff == [t |-> "None"]

\* The lengths of the sequences the classification stage produces for the
\* fan-out inputs of the volume node: all n, except that slot d (if any) has m.
Lengths(n, d, m) == [s \in IterField("hc_volume") |-> IF s = d THEN m ELSE n]

Aligned(lens) == \A a, b \in DOMAIN lens : lens[a] = lens[b]

\* The classification results the model draws from: every common length up
\* to MaxRuns, and every way one of two slots can be one longer or one
\* shorter than the others.
LengthChoices ==
    {Lengths(n, "", 0) : n \in 0..MaxRuns}
    \cup UNION {{Lengths(n, d, m) : m \in {n - 1, n + 1} \cap (0..MaxRuns)} :
                    n \in 0..MaxRuns, d \in {"bold_img", "unwarp_dir"}}

\* super().run(...) / super().write_graph(...): the engine receives the graph
\* as it is now. On run it executes the stages: equal fan-out lengths N give
\* N instances of the fan-out nodes, unequal lengths are reported by the
\* engine while it executes.
Handoff(w, op, arg, lens) ==
    [t |-> "graph", op |-> op, arg |-> arg,
     nodes |-> w.graph.nodes, edges |-> w.graph.edges,
     subjects |-> IF "subjects_node" \in DOMAIN w.nodes
                  THEN w.nodes["subjects_node"].iterables ELSE None,
     aligned |-> (op = "run") => Aligned(lens),
     instances |-> IF op = "run" /\ Aligned(lens) THEN lens["bold_name"] ELSE 0,
     engine_error |-> op = "run" /\ ~Aligned(lens)]

\* The second statement of run / write_graph: the call of the engine with
\* the composer w1 that connect_nodes left (not reached if it raised).
\* The result is [w, engine].
Delegate(w1, op, arg, lens) ==
    [w |-> w1,
     engine |-> IF w1.raised = "none" THEN Handoff(w1, op, arg, lens) ELSE engine]

\* run without its first statement: the engine gets the graph as it is.
run_unwired(w, arg, lens) == Delegate(w, "run", arg, lens)

\* self.run(*args): connect_nodes, then the engine's run.
run(w, arg, lens) == Delegate(connect_nodes(w), "run", arg, lens)

\* self.write_graph(*args): connect_nodes, then the engine's write_graph.
write_graph(w, arg) == Delegate(connect_nodes(w), "write_graph", arg, Lengths(0, "", 0))

\* ---------------------------------------------------------------- inputs

Absent == [t |-> "absent"]

\* A dict of the given <<key, value>> pairs, leaving out Absent values.
MkDict(pairs) ==
    LET present == {i \in DOMAIN pairs : pairs[i][2] # Absent}
    IN  Dict([k \in {pairs[i][1] : i \in present} |->
                 pairs[CHOOSE i \in present : pairs[i][1] = k][2]])

SubjectChoices ==
    {Absent, List(<<"101", "102">>), List(<<"103">>)}

\* <<subject_dir, dicom_template>>
DirChoices ==
    { <<Absent, Absent>>,
      <<Str("/data/raw"), Str("%s/*.dcm")>>,
      <<Str("/data/alt"), Absent>> }

\* The other sections of a configuration document.
ExtraChoices ==
    { <<>>,
      [series |-> Dict([t1 |-> Str("T1w_MPR")]),
       templates |-> Dict([templates_dir |-> Str("/tpl"), t1_template |-> Str("T1.nii")]),
       pre_freesurfer |-> Dict([t1_template |-> Str("my_T1.nii"), no_such_input |-> Str("x"),
                                environ |-> Dict([FSLDIR |-> Str("/opt/fsl")])])],
      [config_files |-> Dict([fnirt_config |-> Str("fnirt.cnf")]),
       nifti_wrangler |-> Dict([ep_unwarp_dir |-> Str("y"),
                                series_map |-> Dict([t2 |-> Str("T2w_SPC")])]),
       volume_processing |-> Dict([full_command |-> Str("my_volume.sh"),
                                   fnirt_config |-> Str("my_fnirt.cnf")])] }

MkConfig(subs, dirs, extra) ==
    LET general == MkDict(<< <<"general",
                     MkDict(<< <<"subjects", subs>>,
                               <<"subject_dir", dirs[1]>>,
                               <<"dicom_template", dirs[2]>> >>)>> >>)
    IN  Dict((IF general.v["general"] = EmptyDict THEN <<>> ELSE general.v) @@ extra)

\* The non-empty configuration documents the model draws from: every general
\* section alone, and the other sections alone and beside a general section.
Configs ==
    ({MkConfig(s, d, <<>>) : s \in SubjectChoices, d \in DirChoices}
     \cup {MkConfig(Absent, <<Absent, Absent>>, e) : e \in ExtraChoices}
     \cup {MkConfig(List(<<"103">>), <<Str("/data/raw"), Str("%s/*.dcm")>>, e) : e \in ExtraChoices})
    \ {EmptyDict}

\* Every value assigned to hc_config.
ConfigValues == Configs \cup {None, EmptyDict}

\* The subject list of -s (None when the option is not given).
CallerSubjects == {None, List(<<"201">>)}

\* ---------------------------------------------------------------- main

\* What main was asked and found: the options that select its path, whether
\* get_config_dict gave a configuration and what validate_config answered.
Asked(early, update, graph_opt, run_opt, parsed, valid) ==
    [early |-> early, update |-> update, graph_opt |-> graph_opt, run_opt |-> run_opt,
     parsed |-> parsed, valid |-> valid]

NotRun ==
    [code |-> "not_run", did |-> "nothing", subs |-> None,
     asked |-> Asked("none", FALSE, FALSE, FALSE, FALSE, FALSE)]

\* validate_config(conf) can only accept a document that names a subject
\* list or a subject directory; what else it requires is left open.
MayValidate(conf) ==
    Truthy(get_conf(conf, "general", "subjects"))
    \/ Truthy(get_conf(conf, "general", "subject_dir"))

\* What main leaves: the composer, what the engine was handed, and main's
\* return value with what it did.
Returned(w, e, code, did) == [w |-> w, engine |-> e, ret |-> [code |-> code, did |-> did]]

\* main returns None after write_graph / run returned r = [w, engine].
After(r, did) == Returned(r.w, r.engine, "None", did)

\* main without the override by the subjects of the command line.
OverrideSubjects_dropped(wk, subs) == wk

\* `if subs: wk.subjects_node.iterables = ("subject", subs)`
OverrideSubjects(wk, subs) ==
    [wk EXCEPT !.nodes = StoreIterables(wk.nodes, "subjects_node", subs)]

\* `wk.data_sink.inputs.base_directory = out_dir`
SetOutDir(wk) ==
    [wk EXCEPT !.nodes = SetInput(wk.nodes, "data_sink", "base_directory", Str("out_dir"))]

\* The workflow main builds: HCPrepWorkflow(config=conf), the subjects of
\* the command line if given, the output directory.
Build(w, conf, subs) == SetOutDir(OverrideSubjects(hc_config_setter(w, conf), subs))

\* main without the test of validate_config: an invalid configuration is
\* built and run like a valid one.
main_unvalidated(w, early, update, graph_opt, run_opt, verbose, subs, n_procs, conf, valid, lens) ==
    CASE early = "getopt_error" -> Returned(w, engine, "2", "getopt error")
      [] early = "help" -> Returned(w, engine, "2", "help")
      [] early = "init" -> Returned(w, engine, "None", "setup_conf")
      [] early = "none" /\ update -> Returned(w, engine, "None", "update_conf")
      [] early = "none" /\ ~update /\ ~run_opt /\ ~graph_opt ->
             Returned(w, engine, "2", "Nothing to do...")
      [] early = "none" /\ ~update /\ (run_opt \/ graph_opt) /\ ~Truthy(conf) ->
             Returned(w, engine, "2", "Could not parse config file.")
      [] early = "none" /\ ~update /\ graph_opt /\ Truthy(conf) ->
             After(write_graph(Build(w, conf, subs), IF verbose THEN "exec" ELSE "orig"),
                   "write_graph")
      [] OTHER ->
             After(run(Build(w, conf, subs), IF n_procs > 0 THEN "MultiProc" ELSE "Linear", lens),
                   "run")

\* main(argv) on a fresh process. early: the first of a getopt error, -h or -i
\* met while the options are read; update, graph_opt, run_opt, verbose: -u,
\* -g, -r, -v given; subs: the list of -s; n_procs: the value of -n; conf: what
\* get_config_dict returns for the selected file; valid: what validate_config
\* returns; lens: the fan-out lengths the run meets.
\* The result is [w, engine, ret].
main(w, early, update, graph_opt, run_opt, verbose, subs, n_procs, conf, valid, lens) ==
    CASE early = "getopt_error" -> Returned(w, engine, "2", "getopt error")
      [] early = "help" -> Returned(w, engine, "2", "help")
      [] early = "init" -> Returned(w, engine, "None", "setup_conf")
      [] early = "none" /\ update -> Returned(w, engine, "None", "update_conf")
      [] early = "none" /\ ~update /\ ~run_opt /\ ~graph_opt ->
             Returned(w, engine, "2", "Nothing to do...")
      [] early = "none" /\ ~update /\ (run_opt \/ graph_opt) /\ ~Truthy(conf) ->
             Returned(w, engine, "2", "Could not parse config file.")
      [] early = "none" /\ ~update /\ (run_opt \/ graph_opt) /\ Truthy(conf) /\ ~valid ->
             Returned(w, engine, "2", "Invalid config file.")
      [] early = "none" /\ ~update /\ graph_opt /\ Truthy(conf) /\ valid ->
             After(write_graph(Build(w, conf, subs), IF verbose THEN "exec" ELSE "orig"),
                   "write_graph")
      [] OTHER ->
             After(run(Build(w, conf, subs), IF n_procs > 0 THEN "MultiProc" ELSE "Linear", lens),
                   "run")

\* ---------------------------------------------------------------- the state machine

\* The last operation performed ("init" right after construction).
LastOp == IF history = <<>> THEN "init" ELSE history[Len(history)]

\* HCPrepWorkflow(): the constructor assigns config=None, which binds nothing.
Init ==
    /\ hc_config = None
    /\ nodes = <<>>
    /\ graph = EmptyGraph
    /\ raised = "none"
    /\ history = <<>>
    /\ engine = NoHandoff
    /\ main_ret = NotRun

\* The composer is open to a caller: main has not run and the bound on the
\* number of operations is not reached.
Open == main_ret = NotRun /\ Len(history) < MaxOps

Install(w, op) ==
    /\ hc_config' = w.hc_config
    /\ nodes' = w.nodes
    /\ graph' = w.graph
    /\ raised' = w.raised
    /\ history' = Append(history, op)

\* wk.hc_config = value (also HCPrepWorkflow(config=value) when it is the
\* first operation).
AssignConfig ==
    /\ Open
    /\ \E value \in ConfigValues : Install(hc_config_setter(Composer, value), "hc_config")
    /\ UNCHANGED <<engine, main_ret>>

ClearNodes ==
    /\ Open
    /\ Install(clear_nodes(Composer), "clear_nodes")
    /\ UNCHANGED <<engine, main_ret>>

ConnectNodes ==
    /\ Open
    /\ Install(connect_nodes(Composer), "connect_nodes")
    /\ UNCHANGED <<engine, main_ret>>

Run ==
    /\ Open
    /\ \E lens \in LengthChoices :
          LET r == run(Composer, "Linear", lens)
          IN  Install(r.w, "run") /\ engine' = r.engine
    /\ UNCHANGED main_ret

WriteGraph ==
    /\ Open
    /\ LET r == write_graph(Composer, "orig")
       IN  Install(r.w, "write_graph") /\ engine' = r.engine
    /\ UNCHANGED main_ret

\* The argument vectors main is given in the model. An option a path of
\* main never reads is held at its default on that path.
MainArgs(early, update, graph_opt, run_opt, verbose, subs, n_procs, conf, valid, lens) ==
    [early |-> early, update |-> update, graph_opt |-> graph_opt, run_opt |-> run_opt,
     verbose |-> verbose, subs |-> subs, n_procs |-> n_procs, conf |-> conf,
     valid |-> valid, lens |-> lens]

MainInputs ==
    {MainArgs(e, FALSE, FALSE, FALSE, FALSE, None, 0, None, FALSE, Lengths(0, "", 0)) :
        e \in {"none", "getopt_error", "help", "init"}}
    \cup {MainArgs("none", TRUE, g, FALSE, FALSE, None, 0, None, FALSE, Lengths(0, "", 0)) :
        g \in BOOLEAN}
    \cup {MainArgs("none", FALSE, TRUE, r, v, s, 0, c, ok, Lengths(0, "", 0)) :
        r \in BOOLEAN, v \in BOOLEAN, s \in CallerSubjects, c \in ConfigValues, ok \in BOOLEAN}
    \cup {MainArgs("none", FALSE, FALSE, TRUE, FALSE, s, n, c, ok, l) :
        s \in CallerSubjects, n \in {0, 2}, c \in ConfigValues, ok \in BOOLEAN,
        l \in LengthChoices}

Main ==
    /\ Open
    /\ history = <<>>
    /\ \E a \in {x \in MainInputs : x.valid => MayValidate(x.conf)} :
          LET r == main(Composer, a.early, a.update, a.graph_opt, a.run_opt, a.verbose,
                        a.subs, a.n_procs, a.conf, a.valid, a.lens)
          IN  /\ Install(r.w, "main")
              /\ engine' = r.engine
              /\ main_ret' = [code |-> r.ret.code, did |-> r.ret.did, subs |-> a.subs,
                               asked |-> Asked(a.early, a.update, a.graph_opt, a.run_opt,
                                               Truthy(a.conf), a.valid)]

Next == AssignConfig \/ ClearNodes \/ ConnectNodes \/ Run \/ WriteGraph \/ Main

Spec == Init /\ [][Next]_vars

\* ---------------------------------------------------------------- properties

\* The complete fixed edge set: what the connection list declares.
AllEdges == {Edge(ConnectionList[i]) : i \in DOMAIN ConnectionList}

E(src, out, dst, in) == [src |-> src, out |-> out, dst |-> dst, in |-> in]

\* The edges of the graph that end at node n / at input slot of node n.
EdgesInto(n) == {e \in graph.edges : e.dst = n}
EdgesAt(n, slot) == {e \in graph.edges : e.dst = n /\ e.in = slot}

IsWired == graph.edges # {}

\* C1: connect_nodes is idempotent: a connect_nodes that follows a
\* connect_nodes returns normally and leaves exactly the edges the first left.
C1_RewireIdempotent ==
    [][(LastOp = "connect_nodes" /\ history' = Append(history, "connect_nodes"))
          => (graph'.edges = graph.edges /\ graph'.edges = AllEdges /\ raised' = "none")]_vars

\* Witness of C1: three connect_nodes in a row, with all edges there.
C1_Witness ==
    /\ Len(history) >= 3
    /\ \A i \in DOMAIN history : history[i] = "connect_nodes"
    /\ graph.edges = AllEdges
    /\ raised = "none"

\* C2: between operations the edge set is empty or the complete fixed edge
\* set, and the graph run / write_graph hand to the engine is no non-empty
\* strict subset of it.
C2_WiredOrEmpty ==
    /\ graph.edges = {} \/ graph.edges = AllEdges
    /\ engine.t = "graph" => (engine.edges = {} \/ engine.edges = AllEdges)

\* Witness of C2: the engine was handed the wired graph and clear_nodes
\* then emptied it.
C2_Witness ==
    /\ Len(history) >= 2
    /\ history[Len(history) - 1] \in {"run", "write_graph"}
    /\ LastOp = "clear_nodes"
    /\ engine.t = "graph" /\ engine.edges = AllEdges
    /\ graph.edges = {}

AcquisitionNodes ==
    {"dicom_grabber", "dicom_gather", "dicom_select", "dicom_convert", "dicom_info",
     "nii_wrangler"}

AcquisitionEdges == {e \in graph.edges : e.dst \in AcquisitionNodes}

\* C6 as claimed: the wired acquisition section is these seven edges, the
\* discovery stage feeding gather.files from its output "files".
C6_AcquisitionAsClaimed ==
    IsWired =>
        AcquisitionEdges =
            {E("subjects_node", "subject", "dicom_grabber", "subject"),
             E("dicom_grabber", "files", "dicom_gather", "files"),
             E("dicom_gather", "links", "dicom_select", "inlist"),
             E("dicom_select", "out", "dicom_convert", "source_names"),
             E("dicom_gather", "links", "dicom_info", "files"),
             E("dicom_convert", "converted_files", "nii_wrangler", "nii_files"),
             E("dicom_info", "info", "nii_wrangler", "dicom_info")}

\* C6 amended: the wired acquisition section is these seven edges, the
\* discovery stage feeding gather.files from its output "dicom".
C6_Acquisition ==
    IsWired =>
        AcquisitionEdges =
            {E("subjects_node", "subject", "dicom_grabber", "subject"),
             E("dicom_grabber", "dicom", "dicom_gather", "files"),
             E("dicom_gather", "links", "dicom_select", "inlist"),
             E("dicom_select", "out", "dicom_convert", "source_names"),
             E("dicom_gather", "links", "dicom_info", "files"),
             E("dicom_convert", "converted_files", "nii_wrangler", "nii_files"),
             E("dicom_info", "info", "nii_wrangler", "dicom_info")}

\* Witness of C6: connect_nodes has wired the graph.
C6_Witness == IsWired /\ LastOp = "connect_nodes" /\ Cardinality(AcquisitionEdges) = 7

\* C7 as claimed: the seven edges from the classification node into the
\* pre freesurfer node join slots of the same name, and with
\* subjects_node.subject they are all its incoming edges.
C7_SameNames ==
    IsWired =>
        EdgesInto("hc_pre_fs") =
            {E("subjects_node", "subject", "hc_pre_fs", "subject")}
            \cup {E("nii_wrangler", x, "hc_pre_fs", x) :
                    x \in {"t1_structs", "t2_structs", "mag_fieldmap", "phase_fieldmap",
                           "fieldmap_te", "t1_sample_spacing", "t2_sample_spacing"}}

\* C7 amended: four of the seven edges rename their slot (t1_structs ->
\* t1_files, t2_structs -> t2_files, mag_fieldmap -> fieldmap_magnitude,
\* phase_fieldmap -> fieldmap_phase), three keep it, and with
\* subjects_node.subject they are all the incoming edges of the node.
C7_PreFsEdges ==
    IsWired =>
        EdgesInto("hc_pre_fs") =
            {E("subjects_node", "subject", "hc_pre_fs", "subject"),
             E("nii_wrangler", "t1_structs", "hc_pre_fs", "t1_files"),
             E("nii_wrangler", "t2_structs", "hc_pre_fs", "t2_files"),
             E("nii_wrangler", "mag_fieldmap", "hc_pre_fs", "fieldmap_magnitude"),
             E("nii_wrangler", "phase_fieldmap", "hc_pre_fs", "fieldmap_phase"),
             E("nii_wrangler", "fieldmap_te", "hc_pre_fs", "fieldmap_te"),
             E("nii_wrangler", "t1_sample_spacing", "hc_pre_fs", "t1_sample_spacing"),
             E("nii_wrangler", "t2_sample_spacing", "hc_pre_fs", "t2_sample_spacing")}

\* Witness of C7: the graph is wired and the pre freesurfer node has its
\* eight incoming edges.
C7_Witness == IsWired /\ Cardinality(EdgesInto("hc_pre_fs")) = 8

\* The source output the claim names for each fan-out input of the volume node.
VolumeFanOutSource ==
    [bold_name |-> "bold_names", bold_img |-> "bolds", bold_scout |-> "sb_refs",
     se_fieldmap_neg |-> "neg_fieldmaps", se_fieldmap_pos |-> "pos_fieldmaps",
     fieldmap_echo_spacing |-> "ep_echo_spacings", unwarp_dir |-> "ep_unwarp_dirs"]

\* C8: in the wired graph the fan-out inputs of the volume node are exactly
\* the seven named ones, each fed by exactly one edge, from the named output
\* of the classification node; those of the surface node are subject and
\* bold_name, each fed by exactly one edge, from the volume node's output of
\* the same name.
C8_FanOutFed ==
    IsWired =>
        /\ nodes["hc_volume"].iterfield = DOMAIN VolumeFanOutSource
        /\ \A slot \in nodes["hc_volume"].iterfield :
              EdgesAt("hc_volume", slot) =
                  {E("nii_wrangler", VolumeFanOutSource[slot], "hc_volume", slot)}
        /\ nodes["hc_surface"].iterfield = {"subject", "bold_name"}
        /\ \A slot \in nodes["hc_surface"].iterfield :
              EdgesAt("hc_surface", slot) = {E("hc_volume", slot, "hc_surface", slot)}

\* Witness of C8: the graph was wired, cleared and wired again.
C8_Witness ==
    /\ IsWired
    /\ Len(history) >= 3
    /\ history[Len(history) - 1] = "clear_nodes"
    /\ history[Len(history) - 2] \in {"connect_nodes", "run", "write_graph"}

\* C4 as claimed: options are not sticky: after a configuration is assigned
\* over an earlier one, the nodes are those of a fresh composer given only
\* the later configuration.
C4_NotSticky ==
    (/\ Len(history) = 2
     /\ \A i \in DOMAIN history : history[i] = "hc_config"
     /\ Truthy(hc_config))
        => nodes = update_nodes_from_config(hc_config, <<>>)

\* C5 as claimed: assigning a configuration that names neither a subject
\* list nor a subject directory fails with a configuration error and leaves
\* the nodes as they were (none, on a fresh composer).
C5_FailsBeforeMutation ==
    (history = <<"hc_config">> /\ Truthy(hc_config) /\ ~MayValidate(hc_config))
        => (raised = "ConfigurationError" /\ nodes = <<>>)

\* C9 as claimed: when a run meets fan-out sequences of unequal length, an
\* alignment error is raised before the graph is wired.
C9_AlignmentErrorBeforeWiring ==
    (LastOp = "run" /\ engine.t = "graph" /\ engine.op = "run" /\ ~engine.aligned)
        => (raised = "AlignmentError" /\ ~IsWired)

\* C10: when main hands the graph to the engine, the subjects node iterates
\* over the list of the command line if one was given, and over the list of
\* the configuration if none was given and the configuration names one.
C10_CallerSubjectsWin ==
    (main_ret.did \in {"run", "write_graph"} /\ engine.t = "graph") =>
        /\ Truthy(main_ret.subs) =>
              engine.subjects = Tuple(<<Str("subject"), main_ret.subs>>)
        /\ (~Truthy(main_ret.subs) /\ Truthy(get_conf(hc_config, "general", "subjects"))) =>
              engine.subjects =
                  Tuple(<<Str("subject"), get_conf(hc_config, "general", "subjects")>>)

\* Witness of C10: main ran the workflow with a subject list on the command
\* line and another in the configuration.
C10_Witness ==
    /\ main_ret.did = "run"
    /\ engine.t = "graph"
    /\ Truthy(main_ret.subs)
    /\ Truthy(get_conf(hc_config, "general", "subjects"))
    /\ get_conf(hc_config, "general", "subjects") # main_ret.subs

\* C11: every named node has one live object per composer: an operation
\* keeps the object of every node that exists, creates a node that does not
\* exist yet as the first object of its name with its declared defaults, and
\* leaves the graph holding the objects the composer holds.
C11_OneInstance ==
    [][/\ \A n \in DOMAIN nodes :
             n \in DOMAIN nodes' /\ nodes'[n].instance = nodes[n].instance
       /\ \A n \in DOMAIN nodes' \ DOMAIN nodes :
             /\ nodes'[n].instance = 1
             /\ nodes'[n].iterfield = IterField(n)
             /\ \A k \in DOMAIN DefaultInputs(n) : nodes'[n].inputs[k] = DefaultInputs(n)[k]
       /\ \A n \in graph'.nodes :
             n \in DOMAIN nodes' /\ graph'.refs[n] = nodes'[n].instance]_vars

\* Witness of C11: a configuration was assigned after the graph was wired,
\* and the graph holds the node whose parameters the assignment set.
C11_Witness ==
    /\ Len(history) = 3
    /\ history[2] = "connect_nodes"
    /\ history[3] = "hc_config"
    /\ "subjects_node" \in graph.nodes
    /\ nodes["subjects_node"].iterables # None
    /\ graph.refs["subjects_node"] = nodes["subjects_node"].instance

\* C12: the per-step section is applied last: while a configuration is in
\* force, every settable input that the per-step section of an HCP node
\* names holds the value of that section, whatever the templates, the config
\* files, the derived command or the environ gave it.
C12_StepSectionLast ==
    Truthy(hc_config) =>
        \A i \in DOMAIN StepSections :
            StepSections[i][2] \in HCSet =>
                \A p \in DOMAIN DictGet(hc_config, StepSections[i][1], EmptyDict).v
                            \cap InputNames(StepSections[i][2]) :
                    nodes[StepSections[i][2]].inputs[p] =
                        DictGet(hc_config, StepSections[i][1], EmptyDict).v[p]

\* Witness of C12: the assigned configuration names fnirt_config both in
\* config_files and in volume_processing, and names full_command in
\* volume_processing; the volume node holds the values of volume_processing.
C12_Witness ==
    /\ LastOp = "hc_config"
    /\ Truthy(hc_config)
    /\ "fnirt_config" \in DOMAIN DictGet(hc_config, "config_files", EmptyDict).v
    /\ {"fnirt_config", "full_command"}
           \subseteq DOMAIN DictGet(hc_config, "volume_processing", EmptyDict).v
    /\ nodes["hc_volume"].inputs["fnirt_config"] = Str("my_fnirt.cnf")
    /\ nodes["hc_volume"].inputs["full_command"] = Str("my_volume.sh")
    /\ nodes["hc_pre_fs"].inputs["fnirt_config"] = Str("fnirt.cnf")

\* The per-step section of the i-th HCP node in the configuration in force.
StepSectionOf(i) ==
    DictGet(hc_config,
            StepSections[CHOOSE j \in DOMAIN StepSections : StepSections[j][2] = HCNodes[i]][1],
            EmptyDict)

\* C13 as claimed: after a non-empty configuration is assigned, the
\* full_command of the i-th HCP node is the i-th command derived from that
\* configuration, for each of the five nodes.
C13_DerivedCommandsInstalled ==
    (LastOp = "hc_config" /\ Truthy(hc_config)) =>
        \A i \in DOMAIN HCNodes :
            /\ HCNodes[i] \in DOMAIN nodes
            /\ nodes[HCNodes[i]].inputs["full_command"] =
                   get_hcp_commands_for_config(hc_config)[i]

\* C13 amended: while a non-empty configuration is in force, the
\* full_command of the i-th HCP node is the value its per-step section names
\* for full_command if it names one, and otherwise the i-th command derived
\* from that configuration; no command of an earlier configuration stays.
C13_CommandsOfCurrentConfig ==
    Truthy(hc_config) =>
        \A i \in DOMAIN HCNodes :
            /\ HCNodes[i] \in DOMAIN nodes
            /\ nodes[HCNodes[i]].inputs["full_command"] =
                   IF "full_command" \in DOMAIN StepSectionOf(i).v
                   THEN StepSectionOf(i).v["full_command"]
                   ELSE get_hcp_commands_for_config(hc_config)[i]

\* Witness of C13: a second non-empty configuration was assigned over a
\* first one (whose subject list is still on the subjects node), and the
\* five commands are those derived from the second.
C13_Witness ==
    /\ history = <<"hc_config", "hc_config">>
    /\ Truthy(hc_config)
    /\ ~Truthy(get_conf(hc_config, "general", "subjects"))
    /\ "subjects_node" \in DOMAIN nodes
    /\ nodes["subjects_node"].iterables # None
    /\ \A i \in DOMAIN HCNodes :
           nodes[HCNodes[i]].inputs["full_command"] = get_hcp_commands_for_config(hc_config)[i]

\* C14 as claimed: after a non-empty configuration is assigned, the five
\* HCP nodes hold one and the same environ, the one derived from that
\* configuration.
C14_SharedEnviron ==
    (LastOp = "hc_config" /\ Truthy(hc_config)) =>
        \A i \in DOMAIN HCNodes :
            /\ HCNodes[i] \in DOMAIN nodes
            /\ nodes[HCNodes[i]].inputs["environ"] = get_hcp_env_for_config(hc_config)

\* C14 amended: while a non-empty configuration is in force, each of the
\* five HCP nodes holds the environ derived from that configuration, unless
\* its per-step section names environ, and then it holds that value.
C14_EnvironOfCurrentConfig ==
    Truthy(hc_config) =>
        \A i \in DOMAIN HCNodes :
            /\ HCNodes[i] \in DOMAIN nodes
            /\ nodes[HCNodes[i]].inputs["environ"] =
                   IF "environ" \in DOMAIN StepSectionOf(i).v
                   THEN StepSectionOf(i).v["environ"]
                   ELSE get_hcp_env_for_config(hc_config)

\* Witness of C14: a second non-empty configuration that names no environ
\* was assigned over a first one, and the five nodes hold its environ.
C14_Witness ==
    /\ history = <<"hc_config", "hc_config">>
    /\ Truthy(hc_config)
    /\ ~Truthy(get_conf(hc_config, "general", "subjects"))
    /\ "subjects_node" \in DOMAIN nodes
    /\ nodes["subjects_node"].iterables # None
    /\ \A i \in DOMAIN HCNodes :
           nodes[HCNodes[i]].inputs["environ"] = get_hcp_env_for_config(hc_config)
    /\ Cardinality({nodes[HCNodes[i]].inputs["environ"] : i \in DOMAIN HCNodes}) = 1

\* The value of input p of node n in ns (of a new node n if ns has none);
\* Absent if the input was never assigned.
NodeInput(ns, n, p) ==
    IF n \in DOMAIN ns
    THEN (IF p \in DOMAIN ns[n].inputs THEN ns[n].inputs[p] ELSE Absent)
    ELSE (IF p \in DOMAIN DefaultInputs(n) THEN DefaultInputs(n)[p] ELSE Absent)

\* The iterables of node n in ns (of a new node n if ns has none).
NodeIterables(ns, n) == IF n \in DOMAIN ns THEN ns[n].iterables ELSE None

\* The section names and option names get_conf is asked for.
SectionNames ==
    {"general", "series", "templates", "config_files", "nifti_wrangler", "pre_freesurfer",
     "freesurfer", "post_freesurfer", "volume_processing", "surface_processing"}

OptionNames ==
    {"subjects", "subject_dir", "dicom_template", "t1_template", "fnirt_config", "full_command"}

\* The inputs of node n that the configuration cfg names: what
\* update_nodes_from_config assigns on n when cfg is assigned.
NamedInputs(cfg, n) ==
    CASE n = "dicom_grabber" ->
            {x \in {"base_directory"} : Truthy(get_conf(cfg, "general", "subject_dir"))}
            \cup {x \in {"field_template"} : Truthy(get_conf(cfg, "general", "dicom_template"))}
      [] n = "nii_wrangler" ->
            {x \in {"series_map"} : Truthy(DictGet(cfg, "series", EmptyDict))}
            \cup DOMAIN DictGet(cfg, "nifti_wrangler", EmptyDict).v
      [] n \in HCSet ->
            {"full_command", "environ"}
            \cup (DOMAIN DictGet(cfg, "templates", EmptyDict).v \ {"templates_dir"})
            \cup DOMAIN DictGet(cfg, "config_files", EmptyDict).v
            \cup DOMAIN DictGet(cfg,
                     StepSections[CHOOSE j \in DOMAIN StepSections : StepSections[j][2] = n][1],
                     EmptyDict).v
      [] OTHER -> {}

\* C15: absence is not an error. get_conf answers None when no configuration
\* is set, the section is missing or the option is missing; the assignment
\* of a non-empty configuration raises nothing and leaves every input that
\* the configuration does not name, and the subjects if it names none, as
\* they were (as a new node has them, if the node did not exist).
C15_AbsenceIsNoError ==
    [][history' = Append(history, "hc_config") =>
          /\ raised' = "none"
          /\ \A sec \in SectionNames, opt \in OptionNames :
                (\/ ~Truthy(hc_config')
                 \/ sec \notin DOMAIN hc_config'.v
                 \/ opt \notin DOMAIN hc_config'.v[sec].v)
                    => get_conf(hc_config', sec, opt) = None
          /\ Truthy(hc_config') =>
                /\ ~Truthy(get_conf(hc_config', "general", "subjects")) =>
                      NodeIterables(nodes', "subjects_node") = NodeIterables(nodes, "subjects_node")
                /\ \A n \in NodeNames :
                      \A q \in (InputNames(n) \cup {"no_such_input"}) \ NamedInputs(hc_config', n) :
                          NodeInput(nodes', n, q) = NodeInput(nodes, n, q)]_vars

\* Witness of C15: a configuration with a general section that names only
\* the subject directory, and with no other section, was assigned over one
\* that had set the subjects, the dicom template and the series map; all
\* three are as the first configuration left them.
C15_Witness ==
    /\ history = <<"hc_config", "hc_config">>
    /\ Truthy(hc_config)
    /\ DOMAIN hc_config.v = {"general"}
    /\ DOMAIN hc_config.v["general"].v = {"subject_dir"}
    /\ raised = "none"
    /\ NodeIterables(nodes, "subjects_node") # None
    /\ NodeInput(nodes, "dicom_grabber", "field_template") # Absent
    /\ NodeInput(nodes, "nii_wrangler", "series_map") # Absent
    /\ NodeInput(nodes, "dicom_grabber", "base_directory") = hc_config.v["general"].v["subject_dir"]

\* main built no workflow: nothing of the composer or the engine was touched.
NothingBuilt ==
    /\ hc_config = None
    /\ nodes = <<>>
    /\ graph = EmptyGraph
    /\ engine = NoHandoff

\* C16 as claimed: main builds a workflow only for a configuration that was
\* parsed and validated, and whenever parsing or validation fails or neither
\* -r nor -g is given it returns 2 and builds nothing.
C16_UsageErrorOrBuild ==
    main_ret # NotRun =>
        /\ ~NothingBuilt => (main_ret.asked.parsed /\ main_ret.asked.valid)
        /\ (\/ ~main_ret.asked.run_opt /\ ~main_ret.asked.graph_opt
            \/ main_ret.did \in {"Could not parse config file.", "Invalid config file."})
               => (main_ret.code = "2" /\ NothingBuilt)

\* C16 amended: main builds a workflow only for a configuration that was
\* parsed and validated, with -r or -g given and none of -h, -i, -u. When
\* none of -h, -i, -u ended it earlier, it returns 2 and builds nothing if
\* neither -r nor -g is given, if the configuration does not parse or if it
\* does not validate. -i and -u return None and -h and a getopt error return
\* 2, all building nothing.
C16_BuildOnlyValidated ==
    main_ret # NotRun =>
        /\ ~NothingBuilt =>
              /\ main_ret.asked.parsed /\ main_ret.asked.valid
              /\ main_ret.asked.run_opt \/ main_ret.asked.graph_opt
              /\ main_ret.asked.early = "none" /\ ~main_ret.asked.update
              /\ main_ret.did \in {"run", "write_graph"}
        /\ main_ret.did \notin {"run", "write_graph"} => NothingBuilt
        /\ (/\ main_ret.asked.early = "none" /\ ~main_ret.asked.update
            /\ \/ ~main_ret.asked.run_opt /\ ~main_ret.asked.graph_opt
               \/ ~main_ret.asked.parsed
               \/ ~main_ret.asked.valid)
               => (main_ret.code = "2" /\ NothingBuilt)
        /\ (main_ret.asked.early = "init"
            \/ (main_ret.asked.early = "none" /\ main_ret.asked.update))
               => (main_ret.code = "None" /\ NothingBuilt)
        /\ main_ret.asked.early \in {"help", "getopt_error"}
               => (main_ret.code = "2" /\ NothingBuilt)

\* Witness of C16: main was asked to run a configuration that parsed and did
\* not validate; it returned 2 and built nothing.
C16_Witness ==
    /\ main_ret.did = "Invalid config file."
    /\ main_ret.asked.run_opt
    /\ main_ret.asked.parsed
    /\ ~main_ret.asked.valid
    /\ main_ret.code = "2"
    /\ NothingBuilt

\* A first assignment, to a fresh composer, of a configuration whose general
\* section gives a subject list, a subject directory and a dicom template
\* and which has no series section.
FreshGeneralOnly ==
    /\ history = <<"hc_config">>
    /\ Truthy(hc_config)
    /\ Truthy(get_conf(hc_config, "general", "subjects"))
    /\ Truthy(get_conf(hc_config, "general", "subject_dir"))
    /\ Truthy(get_conf(hc_config, "general", "dicom_template"))
    /\ "series" \notin DOMAIN hc_config.v

\* The subjects node and the grabber as the general section binds them.
GeneralBound ==
    /\ NodeIterables(nodes, "subjects_node") =
           Tuple(<<Str("subject"), get_conf(hc_config, "general", "subjects")>>)
    /\ NodeInput(nodes, "dicom_grabber", "base_directory") =
           get_conf(hc_config, "general", "subject_dir")
    /\ NodeInput(nodes, "dicom_grabber", "field_template") =
           Dict([dicom |-> get_conf(hc_config, "general", "dicom_template")])

\* C17 as claimed: after such an assignment the subjects node iterates over
\* the list on "subject", the grabber has the directory and the field
\* template {"dicom": template}, and series_map was never assigned.
C17_GeneralBoundNoSeries ==
    FreshGeneralOnly =>
        (GeneralBound /\ NodeInput(nodes, "nii_wrangler", "series_map") = Absent)

\* C17 amended: the same, with series_map never assigned provided that the
\* nifti_wrangler section does not name it, and holding the value of that
\* section otherwise.
C17_GeneralBoundSeriesFromStep ==
    FreshGeneralOnly =>
        /\ GeneralBound
        /\ NodeInput(nodes, "nii_wrangler", "series_map") =
               DictGet(DictGet(hc_config, "nifti_wrangler", EmptyDict), "series_map", Absent)

\* Witness of C17: such an assignment of a configuration with no
\* nifti_wrangler section; the nifti wrangler exists and has no series_map.
C17_Witness ==
    /\ FreshGeneralOnly
    /\ "nifti_wrangler" \notin DOMAIN hc_config.v
    /\ GeneralBound
    /\ "nii_wrangler" \in DOMAIN nodes
    /\ NodeInput(nodes, "nii_wrangler", "series_map") = Absent

\* C18: every run and every write_graph, called directly or by main, hands
\* the engine the complete fixed edge set over all the nodes, and leaves the
\* graph so wired, whatever the graph was before.
C18_RewireBeforeEngine ==
    [][(\/ history' = Append(history, "run")
        \/ history' = Append(history, "write_graph")
        \/ (history' = Append(history, "main") /\ main_ret'.did \in {"run", "write_graph"}))
          => /\ raised' = "none"
             /\ engine'.t = "graph"
             /\ engine'.op = (IF LastOp' = "main" THEN main_ret'.did ELSE LastOp')
             /\ engine'.edges = AllEdges
             /\ engine'.nodes = NodeNames
             /\ graph'.edges = AllEdges
             /\ graph' = connect_nodes(Composer).graph]_vars

\* Witness of C18: the graph was wired, a non-empty configuration was
\* assigned, and a run then handed the engine the complete edge set.
C18_Witness ==
    /\ history = <<"connect_nodes", "hc_config", "run">>
    /\ Truthy(hc_config)
    /\ engine.t = "graph"
    /\ engine.op = "run"
    /\ engine.edges = AllEdges

\* C19: the composer constructed with no configuration holds None, no node
\* and no edge; and assigning None or an empty mapping stores it, raises
\* nothing, and leaves every node and the graph as they were.
C19_EmptyAssignBindsNothing ==
    /\ (hc_config = None /\ nodes = <<>> /\ graph = EmptyGraph)
    /\ [][(history' = Append(history, "hc_config") /\ ~Truthy(hc_config'))
             => /\ hc_config' \in {None, EmptyDict}
                /\ raised' = "none"
                /\ nodes' = nodes
                /\ graph' = graph]_vars

\* Witness of C19: an empty mapping was assigned to a composer that was
\* configured and wired; its nodes and edges are still there.
C19_Witness ==
    /\ history = <<"hc_config", "connect_nodes", "hc_config">>
    /\ hc_config = EmptyDict
    /\ NodeIterables(nodes, "subjects_node") # None
    /\ NodeInput(nodes, "hc_fs", "full_command") # Absent
    /\ graph.edges = AllEdges

====
